---- MODULE Spec2Model ----
(***************************************************************************)
(* A model of src/work.py: the template locator (the module-level          *)
(* check_element_exist), its callers (the bounded retries safe_click and   *)
(* BaseUIAutomator.check_element_exist), _hotkey and the configured key    *)
(* lists, the bounded-time poll wait_execution, and ComposerAutomator's    *)
(* workflow execute_workflow with the steps it calls.                      *)
(*                                                                         *)
(* The environment (the screen, the window manager, the subprocesses) is   *)
(* nondeterministic: every locate returns found / absent or raises, every  *)
(* focus_window returns True or False, every click may raise.  Plain key   *)
(* presses and sleeps return normally.  A pyautogui call that raises has   *)
(* not delivered its gesture (its fail-safe check precedes the gesture).   *)
(* Time is counted in whole seconds and only the code's sleeps advance it. *)
(***************************************************************************)
EXTENDS Integers, Sequences, FiniteSets

VARIABLES
    platform,       \* platform.system(): "Darwin", "Windows" or "Linux"
    cfg,            \* the set of key paths present in self.config
    task,           \* execute_workflow's task: "" or a prompt
    files,          \* execute_workflow's files: a sequence of paths
    pc,             \* the position in __init__ / execute_workflow / wait_execution
    ctor,           \* how ComposerAutomator.__init__ ended: "none", "ok", "ValueError"
    result,         \* what execute_workflow returned: "none", "true", "false"
    stepStatus,     \* per step: "notrun", "running", "ok", "fail"
    visited,        \* the steps execute_workflow has entered, in order
    effects,        \* the kinds of external effect that have happened
    focusFailed,    \* a focus_window call of the current step returned False
    focusLost,      \* some focus_window call of this run returned False
    injectedAfterFocusFail, \* an input was injected in a step after its focus_window returned False
    focusFresh,     \* focus_window was called since the previous step finished
    unfocusedInputs, \* the positions (pc) at which input was injected without that
    rPc,            \* the retry loop: "idle", "loop", "done"
    rFn,            \* which bounded-count retry runs: "safe_click" or "check_element_exist"
    rN,             \* its retry argument
    rInterval,      \* its sleep between attempts
    rHist,          \* the outcome of each attempt made so far
    rRet,           \* its return: "none", "true", "false" ("raised": an exception left it)
    rSlept,         \* the seconds it has slept
    ocRetry,        \* open_composer's retry counter
    ocHotkeys,      \* how often open_composer issued its hotkey
    attached,       \* the attach gestures link_files has performed, in order
    prompts,        \* how often input_text pasted the prompt
    clicks,         \* how often safe_click clicked
    sendHotkeys,    \* how often send_message issued its fallback hotkey
    sendOut,        \* what safe_click returned to send_message: "none", "true", "false"
    sendRet,        \* what send_message returned: "none", "true", "false"
    waitCalls,      \* how often wait_execution was called
    timeout,        \* wait_execution's timeout, read from config['wait_timeouts']['execution']
    elapsed,        \* time.time() - start in wait_execution
    waitOut,        \* how wait_execution ended: "none", "true", "false", "timeout" (the
                    \* deadline passed), "keyerror" (no timeout configured)
    waitAllVisible, \* every evaluation of the generating predicate found the indicator
    polls,          \* how many polls of wait_execution have completed
    visiblePolls,   \* how many of them found the indicator at every locate they made
    finalPoll,      \* the attempts of the poll that made wait_execution return True
    accepts,        \* how often accept_changes issued its hotkey
    hotkeys,        \* self.config['hotkeys']: the key list of each hotkey
    chords,         \* the chords _hotkey has pressed: which hotkey, the key held, the keys pressed
    monitors,       \* len(sct.monitors) in capture_screen
    template,       \* cv2.imread(image_path): the template's shape [h, w], or NoTemplate
    max_val,        \* the best match score, in steps of 0.05
    max_loc,        \* where the best match is: <<x, y>>
    confidence,     \* the confidence argument, in steps of 0.05
    lPc,            \* the module-level check_element_exist: "idle", "called", "captured", "done"
    captures,       \* how many screenshots its current call grabbed
    matches,        \* how many cv2.matchTemplate calls its current call made
    lOut,           \* how the call ended: "none", "returned", "ValueError"
    exist,          \* the first component of the returned pair
    pos             \* the second: <<center_x, center_y>>, or <<>> for None

inputVars == <<platform, cfg, task, files>>
flowVars == <<pc, ctor, result, stepStatus, visited>>
envVars == <<effects, focusFailed, focusLost, injectedAfterFocusFail>>
retryVars == <<rPc, rFn, rN, rInterval, rHist, rRet, rSlept>>
stepVars == <<ocRetry, ocHotkeys, attached, prompts, sendHotkeys, sendOut, sendRet, accepts>>
waitVars == <<waitCalls, timeout, elapsed, waitOut, waitAllVisible, polls, visiblePolls,
              finalPoll>>
locVars == <<monitors, template, max_val, max_loc, confidence, lPc, captures, matches,
             lOut, exist, pos>>
focusVars == <<focusFresh, unfocusedInputs>>
keyVars == <<hotkeys, chords>>
vars == <<inputVars, flowVars, envVars, focusVars, retryVars, stepVars, waitVars, clicks,
          locVars, keyVars>>

----------------------------------------------------------------------------
\* Bounds of the model.

\* the largest retry argument the retry harness passes
MaxRetry == 3
\* the longest files list
MaxFiles == 2
\* the most keys a configuration lacks
MaxMissing == 1
\* the largest execution timeout, in seconds
MaxTimeout == 6
\* the largest execution timeout of wait_execution called on its own, in seconds
MaxWait == 12
\* the largest match score and confidence, in steps of 0.05 (20 is 1.0)
MaxScore == 20
\* the largest coordinate of the best match
MaxCoord == 2
\* the longest side of a template
MaxSide == 3
\* the longest key list of a configured hotkey
MaxKeys == 3

----------------------------------------------------------------------------
\* Configuration.

TopKeys == {"hotkeys", "wait_timeouts", "ui_elements"}

NestedKeys ==
    {"hotkeys.open_composer", "hotkeys.new_session",
     "wait_timeouts.after_open", "wait_timeouts.per_file", "wait_timeouts.execution",
     "ui_elements.agent_mode", "ui_elements.send_button", "ui_elements.generating"}

AllKeys == TopKeys \cup NestedKeys \cup {"window_title", "project_path"}

\* CONFIG, the complete configuration
CONFIG == AllKeys

Configs == {c \in SUBSET AllKeys : Cardinality(AllKeys \ c) <= MaxMissing}

Platforms == {"Darwin", "Windows", "Linux"}

\* self.config[k] (or self.config[top][k]) does not raise KeyError
Has(k) == k \in cfg

\* validate_config: the keys whose absence it reports
required_keys == {"hotkeys", "wait_timeouts", "ui_elements"}

validate_config == required_keys \subseteq cfg

\* ctrl_key: "command" on macOS, "ctrl" elsewhere
ctrl_key == IF platform = "Darwin" THEN "command" ELSE "ctrl"

\* CONFIG['hotkeys']
ConfigHotkeys == [open_composer |-> <<ctrl_key, "i">>, new_session |-> <<ctrl_key, "n">>]

\* _hotkey(keys_list): keys is a copy of keys_list, its first key is popped and
\* held while the remaining keys are pressed in order (both platform branches);
\* list is keys_list after the call
_hotkey_Mut(keys_list) ==
    [list |-> Tail(keys_list), held |-> Head(keys_list), pressed |-> Tail(keys_list)]

_hotkey(keys_list) ==
    LET keys == keys_list IN
    [list |-> keys_list, held |-> Head(keys), pressed |-> Tail(keys)]

\* self._hotkey(self.config['hotkeys'][name]) raises: KeyError without the
\* hotkey, IndexError (pop from an empty list) for an empty key list
HotkeyRaises(key, name) == ~Has(key) \/ hotkeys[name] = <<>>

\* self._hotkey(self.config['hotkeys'][name]) when it does not raise
PressHotkey(name) ==
    LET hk == _hotkey(hotkeys[name]) IN
    /\ hotkeys' = [hotkeys EXCEPT ![name] = hk.list]
    /\ chords' = chords \cup {[name |-> name, held |-> hk.held, pressed |-> hk.pressed]}

----------------------------------------------------------------------------
\* The locator: the module-level check_element_exist(image_path, confidence).

\* the default of the confidence parameter, 0.8
DefaultConfidence == 16

\* if max_val >= confidence
Matched_Mut(score, conf) == score > conf

Matched(score, conf) == score >= conf

\* steps 4 and 5: the pair returned for a best match of score val at loc and a
\* template of shape [h, w]; <<>> stands for None
check_element_exist(val, loc, shape, conf) ==
    IF Matched(val, conf)
    THEN [exist |-> TRUE, pos |-> <<loc[1] + shape.w \div 2, loc[2] + shape.h \div 2>>]
    ELSE [exist |-> FALSE, pos |-> <<>>]

\* cv2.imread returned None: the image cannot be read
NoTemplate == [h |-> 0, w |-> 0]

\* the locator is not running
LocIdle ==
    /\ monitors = 2
    /\ template = NoTemplate
    /\ max_val = 0
    /\ max_loc = <<0, 0>>
    /\ confidence = DefaultConfidence
    /\ lPc = "idle"
    /\ captures = 0
    /\ matches = 0
    /\ lOut = "none"
    /\ exist = FALSE
    /\ pos = <<>>

----------------------------------------------------------------------------
\* The bounded-count retries: safe_click and BaseUIAutomator.check_element_exist.

\* what one attempt of safe_click can do: locate finds the element and the click
\* is delivered; locate does not find it; locate raises; locate finds it and
\* the click raises
SafeClickOutcomes == {"found", "absent", "locate_exc", "click_exc"}

\* what one attempt of check_element_exist can do
CheckOutcomes == {"found", "absent", "locate_exc"}

Exceptions == {"locate_exc", "click_exc"}

\* for _ in range(retry): another iteration follows i completed ones
LoopContinues_Mut(i, n) == i <= n

LoopContinues(i, n) == i < n

\* one iteration of safe_click's loop body: "return" (return True), "sleep"
\* (fall through to time.sleep(1)) or "raise" (the exception leaves the call)
SafeClickStep_Mut(o) ==
    IF o = "found" THEN "return" ELSE IF o \in Exceptions THEN "raise" ELSE "sleep"

SafeClickStep(o) == IF o = "found" THEN "return" ELSE "sleep"

\* one iteration of check_element_exist's loop body
CheckStep(o) == IF o = "found" THEN "return" ELSE "sleep"

\* the call safe_click(image_path, retry=n) / check_element_exist(image_path, n, interval)
RetryCall(fn, n, interval) ==
    /\ rPc' = "loop"
    /\ rFn' = fn
    /\ rN' = n
    /\ rInterval' = interval
    /\ rHist' = <<>>
    /\ rRet' = "none"
    /\ rSlept' = 0

RetryStep(o, step) ==
    /\ rHist' = Append(rHist, o)
    /\ rPc' = IF step = "sleep" THEN "loop" ELSE "done"
    /\ rRet' = IF step = "return" THEN "true" ELSE IF step = "raise" THEN "raised" ELSE rRet
    /\ rSlept' = IF step = "sleep" THEN rSlept + rInterval ELSE rSlept
    /\ UNCHANGED <<rFn, rN, rInterval>>

SafeClickAttempt ==
    /\ rPc = "loop"
    /\ rFn = "safe_click"
    /\ LoopContinues(Len(rHist), rN)
    /\ \E o \in SafeClickOutcomes :
        /\ RetryStep(o, SafeClickStep(o))
        /\ clicks' = IF o = "found" THEN clicks + 1 ELSE clicks
        /\ effects' = effects \cup {"capture"} \cup (IF o = "found" THEN {"input"} ELSE {})
        /\ injectedAfterFocusFail' = (injectedAfterFocusFail \/ (o = "found" /\ focusFailed))
        /\ unfocusedInputs' = IF o = "found" /\ ~focusFresh
                                 THEN unfocusedInputs \cup {pc}
                                 ELSE unfocusedInputs
    /\ UNCHANGED <<inputVars, locVars, keyVars, flowVars, focusFailed, focusLost, focusFresh,
                   stepVars, waitVars>>

CheckAttempt ==
    /\ rPc = "loop"
    /\ rFn = "check_element_exist"
    /\ LoopContinues(Len(rHist), rN)
    /\ \E o \in CheckOutcomes : RetryStep(o, CheckStep(o))
    /\ effects' = effects \cup {"capture"}
    /\ UNCHANGED <<inputVars, locVars, keyVars, flowVars, focusFailed, focusLost,
                   injectedAfterFocusFail, focusVars, stepVars, waitVars, clicks>>

\* the loop ran out of iterations: logger.error / return False
RetryExhausted ==
    /\ rPc = "loop"
    /\ ~LoopContinues(Len(rHist), rN)
    /\ rPc' = "done"
    /\ rRet' = "false"
    /\ UNCHANGED <<rFn, rN, rInterval, rHist, rSlept>>
    /\ UNCHANGED <<inputVars, locVars, keyVars, flowVars, envVars, focusVars, stepVars,
                   waitVars, clicks>>

----------------------------------------------------------------------------
\* The initial values of the state that the inputs do not decide.

Steps == <<"open_project", "focus", "open_composer", "new_session", "link_files",
           "input_prompt", "wait_execution", "accept_changes">>

StepNames == {Steps[i] : i \in 1..Len(Steps)}

Fresh ==
    /\ result = "none"
    /\ stepStatus = [s \in StepNames |-> "notrun"]
    /\ visited = <<>>
    /\ effects = {}
    /\ focusFailed = FALSE
    /\ focusLost = FALSE
    /\ injectedAfterFocusFail = FALSE
    /\ focusFresh = FALSE
    /\ unfocusedInputs = {}
    /\ chords = {}
    /\ rPc = "idle"
    /\ rFn = "safe_click"
    /\ rN = 0
    /\ rInterval = 0
    /\ rHist = <<>>
    /\ rRet = "none"
    /\ rSlept = 0
    /\ ocRetry = 3
    /\ ocHotkeys = 0
    /\ attached = <<>>
    /\ prompts = 0
    /\ clicks = 0
    /\ sendHotkeys = 0
    /\ sendOut = "none"
    /\ sendRet = "none"
    /\ waitCalls = 0
    /\ timeout = 0
    /\ elapsed = 0
    /\ waitOut = "none"
    /\ waitAllVisible = TRUE
    /\ polls = 0
    /\ visiblePolls = 0
    /\ finalPoll = <<>>
    /\ accepts = 0

----------------------------------------------------------------------------
\* The retries called on their own on a constructed automator, with every retry
\* argument 0..MaxRetry.

InitRetry ==
    /\ platform = "Windows"
    /\ cfg = CONFIG
    /\ task = ""
    /\ files = <<>>
    /\ pc = "retry_harness"
    /\ ctor = "ok"
    /\ Fresh
    /\ LocIdle
    /\ hotkeys = ConfigHotkeys

CallRetry ==
    /\ pc = "retry_harness"
    /\ rPc \in {"idle", "done"}
    /\ \E fn \in {"safe_click", "check_element_exist"}, n \in 0..MaxRetry :
        RetryCall(fn, n, IF fn = "safe_click" THEN 1 ELSE 2)
    /\ clicks' = 0
    /\ UNCHANGED <<inputVars, locVars, keyVars, flowVars, envVars, focusVars, stepVars,
                   waitVars>>

NextRetry == CallRetry \/ SafeClickAttempt \/ CheckAttempt \/ RetryExhausted

SpecRetry == InitRetry /\ [][NextRetry]_vars

----------------------------------------------------------------------------
\* The locator called on its own: every score and confidence of 0..MaxScore,
\* every best-match position of 0..MaxCoord, every template shape of
\* 1..MaxSide or an unreadable template, monitor 1 there or not.

Shapes == [h : 1..MaxSide, w : 1..MaxSide]

InitLocate ==
    /\ platform = "Windows"
    /\ cfg = CONFIG
    /\ task = ""
    /\ files = <<>>
    /\ pc = "locate_harness"
    /\ ctor = "ok"
    /\ Fresh
    /\ hotkeys = ConfigHotkeys
    /\ monitors \in {1, 2}
    /\ template \in Shapes \cup {NoTemplate}
    /\ max_val \in 0..MaxScore
    /\ max_loc \in (0..MaxCoord) \X (0..MaxCoord)
    /\ confidence \in 0..MaxScore
    /\ lPc = "called"
    /\ captures = 0
    /\ matches = 0
    /\ lOut = "none"
    /\ exist = FALSE
    /\ pos = <<>>

\* step 1, capture_screen(monitor_id=1): ValueError when the monitor is not there
CaptureScreen ==
    /\ lPc = "called"
    /\ IF 1 >= monitors
          THEN lPc' = "done" /\ lOut' = "ValueError" /\ UNCHANGED captures
          ELSE lPc' = "captured" /\ captures' = captures + 1 /\ UNCHANGED lOut
    /\ UNCHANGED <<monitors, template, max_val, max_loc, confidence, matches, exist, pos>>
    /\ UNCHANGED <<inputVars, flowVars, envVars, focusVars, retryVars, stepVars, waitVars,
                   clicks, keyVars>>

\* steps 3 to 5: ValueError when the template cannot be read, else one
\* matchTemplate and the returned pair
MatchTemplate ==
    /\ lPc = "captured"
    /\ lPc' = "done"
    /\ IF template = NoTemplate
          THEN lOut' = "ValueError" /\ UNCHANGED <<matches, exist, pos>>
          ELSE LET ret == check_element_exist(max_val, max_loc, template, confidence) IN
               /\ matches' = matches + 1
               /\ lOut' = "returned"
               /\ exist' = ret.exist
               /\ pos' = ret.pos
    /\ UNCHANGED <<monitors, template, max_val, max_loc, confidence, captures>>
    /\ UNCHANGED <<inputVars, flowVars, envVars, focusVars, retryVars, stepVars, waitVars,
                   clicks, keyVars>>

NextLocate == CaptureScreen \/ MatchTemplate

SpecLocate == InitLocate /\ [][NextLocate]_vars

----------------------------------------------------------------------------
\* ComposerAutomator: construction and execute_workflow.

\* the sleep of wait_execution after a poll that found the indicator
PollSleep == 5

\* focus_window: True, or False when anything in it raised; without
\* config['window_title'] it raises KeyError inside its try and returns False
FocusResults == IF Has("window_title") THEN {TRUE, FALSE} ELSE {FALSE}

\* focus_window on macOS runs its first AppleScript before it reads
\* config['window_title']; elsewhere the key is read first
FocusEffects == IF platform = "Darwin" \/ Has("window_title") THEN {"window"} ELSE {}

\* the bookkeeping of one action: failedNow, a focus_window call in it returned
\* False; injected, it injected keyboard or mouse input; extra, its other effects
EnvStep(failedNow, injected, extra, stepEnds) ==
    /\ focusLost' = (focusLost \/ failedNow)
    /\ injectedAfterFocusFail' =
           (injectedAfterFocusFail \/ (injected /\ (focusFailed \/ failedNow)))
    /\ focusFailed' = IF stepEnds THEN FALSE ELSE (focusFailed \/ failedNow)
    /\ effects' = effects \cup extra \cup (IF injected THEN {"input"} ELSE {})

\* more bookkeeping of one action: called, it called focus_window (before it
\* injected anything); injected and stepEnds as in EnvStep
FocusTrack(called, injected, stepEnds) ==
    /\ focusFresh' = IF stepEnds THEN FALSE ELSE (focusFresh \/ called)
    /\ unfocusedInputs' = IF injected /\ ~(focusFresh \/ called)
                             THEN unfocusedInputs \cup {pc}
                             ELSE unfocusedInputs

\* execute_workflow enters a step; open_composer repeating its body after a
\* failed verification stays in the step it is in
Visit_Mut(step) == Append(visited, step)

Visit(step) ==
    IF visited # <<>> /\ visited[Len(visited)] = step THEN visited ELSE Append(visited, step)

\* execute_workflow's except clause: the exception ends the step and the
\* workflow returns False
Caught_Mut(step) ==
    /\ stepStatus' = [stepStatus EXCEPT ![step] = "fail"]
    /\ UNCHANGED result
    /\ pc' = "done"

Caught(step) ==
    /\ stepStatus' = [stepStatus EXCEPT ![step] = "fail"]
    /\ result' = "false"
    /\ pc' = "done"

RetryReset ==
    /\ rPc' = "idle"
    /\ rHist' = <<>>
    /\ rRet' = "none"
    /\ rSlept' = 0
    /\ UNCHANGED <<rFn, rN, rInterval>>

\* ComposerAutomator(config)
Construct ==
    /\ pc = "init"
    /\ IF validate_config
          THEN ctor' = "ok" /\ pc' = "idle"
          ELSE ctor' = "ValueError" /\ pc' = "ctor_failed"
    /\ UNCHANGED <<inputVars, locVars, keyVars, result, stepStatus, visited, envVars,
                   focusVars, retryVars, stepVars, waitVars, clicks>>

\* open_project: whether it raised and whether a subprocess.run was called.
\* has: config['project_path'] is there; raises: the first subprocess.run raises;
\* exists: a Cursor.exe of cursor_paths exists; raises2: the second run raises
open_project(has, raises, exists, raises2) ==
    IF platform = "Windows"
    THEN IF has /\ ~raises
         THEN [raised |-> FALSE, launched |-> TRUE]
         ELSE IF exists
              THEN IF has
                   THEN [raised |-> raises2, launched |-> TRUE]
                   ELSE [raised |-> TRUE, launched |-> FALSE]
              ELSE [raised |-> FALSE, launched |-> has]
    ELSE IF has
         THEN [raised |-> raises, launched |-> TRUE]
         ELSE [raised |-> TRUE, launched |-> FALSE]

\* execute_workflow up to the end of open_project and the sleep after it
OpenProject ==
    /\ pc = "idle"
    /\ visited' = Visit("open_project")
    /\ \E raises \in BOOLEAN, exists \in BOOLEAN, raises2 \in BOOLEAN :
        LET out == open_project(Has("project_path"), raises, exists, raises2) IN
        /\ EnvStep(FALSE, FALSE, IF out.launched THEN {"launch"} ELSE {}, TRUE)
        /\ FocusTrack(FALSE, FALSE, TRUE)
        /\ IF out.raised
              THEN Caught("open_project")
              ELSE /\ stepStatus' = [stepStatus EXCEPT !["open_project"] = "ok"]
                   /\ pc' = "focus"
                   /\ UNCHANGED result
    /\ UNCHANGED <<inputVars, locVars, keyVars, ctor, retryVars, stepVars, waitVars, clicks>>

\* success = self.focus_window(); if not success: return False
Focus ==
    /\ pc = "focus"
    /\ visited' = Visit("focus")
    /\ \E f \in FocusResults :
        /\ EnvStep(~f, FALSE, FocusEffects, TRUE)
        /\ FocusTrack(TRUE, FALSE, TRUE)
        /\ stepStatus' = [stepStatus EXCEPT !["focus"] = IF f THEN "ok" ELSE "fail"]
        /\ result' = IF f THEN result ELSE "false"
        /\ pc' = IF f THEN "open_composer" ELSE "done"
    /\ UNCHANGED <<inputVars, locVars, keyVars, ctor, retryVars, stepVars, waitVars, clicks>>

\* open_composer: focus_window, the hotkey and the settle sleep, at its start
\* and again after every failed verification
OpenComposerBody ==
    /\ pc = "open_composer"
    /\ visited' = Visit("open_composer")
    /\ \E f \in FocusResults :
        IF HotkeyRaises("hotkeys.open_composer", "open_composer")
        THEN /\ EnvStep(~f, FALSE, FocusEffects, FALSE)
             /\ FocusTrack(TRUE, FALSE, FALSE)
             /\ Caught("open_composer")
             /\ UNCHANGED <<ocHotkeys, keyVars>>
        ELSE /\ EnvStep(~f, TRUE, FocusEffects, FALSE)
             /\ FocusTrack(TRUE, TRUE, FALSE)
             /\ PressHotkey("open_composer")
             /\ ocHotkeys' = ocHotkeys + 1
             /\ IF ~Has("wait_timeouts.after_open")
                   THEN Caught("open_composer")
                   ELSE /\ stepStatus' = [stepStatus EXCEPT !["open_composer"] = "running"]
                        /\ pc' = "oc_loop"
                        /\ UNCHANGED result
    /\ UNCHANGED <<inputVars, locVars, ctor, retryVars, ocRetry, attached, prompts,
                   sendHotkeys, sendOut, sendRet, accepts, waitVars, clicks>>

\* while retry > 0: check_element_exist(agent_mode, retry=1, interval=1);
\* after the loop: return False, and execute_workflow returns False
OpenComposerLoop ==
    /\ pc = "oc_loop"
    /\ IF ocRetry > 0
          THEN IF Has("ui_elements.agent_mode")
               THEN /\ RetryCall("check_element_exist", 1, 1)
                    /\ pc' = "oc_verify"
                    /\ UNCHANGED <<result, stepStatus>>
               ELSE /\ Caught("open_composer")
                    /\ UNCHANGED retryVars
          ELSE /\ stepStatus' = [stepStatus EXCEPT !["open_composer"] = "fail"]
               /\ result' = "false"
               /\ pc' = "done"
               /\ UNCHANGED retryVars
    /\ UNCHANGED <<inputVars, locVars, keyVars, ctor, visited, envVars, focusVars, stepVars,
                   waitVars, clicks>>

\* the verification returned: return True, or retry -= 1 and the body again
OpenComposerVerified ==
    /\ pc = "oc_verify"
    /\ rPc = "done"
    /\ RetryReset
    /\ IF rRet = "true"
          THEN /\ stepStatus' = [stepStatus EXCEPT !["open_composer"] = "ok"]
               /\ pc' = "new_session"
               /\ EnvStep(FALSE, FALSE, {}, TRUE)
               /\ FocusTrack(FALSE, FALSE, TRUE)
               /\ UNCHANGED <<result, ocRetry>>
          ELSE IF rRet = "false"
               THEN /\ ocRetry' = ocRetry - 1
                    /\ pc' = "open_composer"
                    /\ UNCHANGED <<result, stepStatus, envVars, focusVars>>
               ELSE /\ Caught("open_composer")
                    /\ UNCHANGED <<ocRetry, envVars, focusVars>>
    /\ UNCHANGED <<inputVars, locVars, keyVars, ctor, visited, ocHotkeys, attached, prompts,
                   sendHotkeys, sendOut, sendRet, accepts, waitVars, clicks>>

\* new_session: focus_window, the new-session hotkey, focus_window, select-all
\* and delete twice; return True
NewSession ==
    /\ pc = "new_session"
    /\ visited' = Visit("new_session")
    /\ \E f1 \in FocusResults, f2 \in FocusResults :
        IF HotkeyRaises("hotkeys.new_session", "new_session")
        THEN /\ EnvStep(~f1, FALSE, FocusEffects, FALSE)
             /\ FocusTrack(TRUE, FALSE, FALSE)
             /\ Caught("new_session")
             /\ UNCHANGED keyVars
        ELSE /\ EnvStep(~f1 \/ ~f2, TRUE, FocusEffects, TRUE)
             /\ FocusTrack(TRUE, TRUE, TRUE)
             /\ PressHotkey("new_session")
             /\ stepStatus' = [stepStatus EXCEPT !["new_session"] = "ok"]
             /\ pc' = "link_files"
             /\ UNCHANGED result
    /\ UNCHANGED <<inputVars, locVars, ctor, retryVars, stepVars, waitVars, clicks>>

\* link_files up to its loop: focus_window and a sleep
LinkFilesFocus ==
    /\ pc = "link_files"
    /\ visited' = Visit("link_files")
    /\ \E f \in FocusResults : EnvStep(~f, FALSE, FocusEffects, FALSE)
    /\ FocusTrack(TRUE, FALSE, FALSE)
    /\ stepStatus' = [stepStatus EXCEPT !["link_files"] = "running"]
    /\ pc' = "link_loop"
    /\ UNCHANGED <<inputVars, locVars, keyVars, ctor, result, retryVars, stepVars, waitVars,
                   clicks>>

\* for path in file_paths: another path follows the ones attached
MoreFiles(done, paths) == Len(done) < Len(paths)

NextFile_Mut(done, paths) == paths[Len(paths) - Len(done)]

NextFile(done, paths) == paths[Len(done) + 1]

\* the input of one iteration: press(' '), press('@'), the paste of the path,
\* press('enter'); settled: time.sleep(config['wait_timeouts']['per_file']) ran
AttachGesture(path, settled) ==
    [keys |-> <<"space", "@", "paste", "enter">>, path |-> path, settled |-> settled]

\* one iteration of link_files's loop: space, '@', the paste of the path, enter,
\* then the per_file settle sleep (on macOS pbpaste is run before the paste)
LinkFile ==
    /\ pc = "link_loop"
    /\ MoreFiles(attached, files)
    /\ attached' = Append(attached, AttachGesture(NextFile(attached, files),
                                                   Has("wait_timeouts.per_file")))
    /\ EnvStep(FALSE, TRUE, IF platform = "Darwin" THEN {"launch"} ELSE {}, FALSE)
    /\ FocusTrack(FALSE, TRUE, FALSE)
    /\ IF Has("wait_timeouts.per_file")
          THEN UNCHANGED <<pc, result, stepStatus>>
          ELSE Caught("link_files")
    /\ UNCHANGED <<inputVars, locVars, keyVars, ctor, visited, retryVars, ocRetry, ocHotkeys,
                   prompts, sendHotkeys, sendOut, sendRet, accepts, waitVars, clicks>>

\* if task: an empty task is false
TaskGiven_Mut(t) == TRUE

TaskGiven(t) == t # ""

\* link_files returns; if task: ... else return True
LinkFilesReturn ==
    /\ pc = "link_loop"
    /\ ~MoreFiles(attached, files)
    /\ stepStatus' = [stepStatus EXCEPT !["link_files"] = "ok"]
    /\ EnvStep(FALSE, FALSE, {}, TRUE)
    /\ FocusTrack(FALSE, FALSE, TRUE)
    /\ IF TaskGiven(task)
          THEN pc' = "input_prompt" /\ UNCHANGED result
          ELSE pc' = "done" /\ result' = "true"
    /\ UNCHANGED <<inputVars, locVars, keyVars, ctor, visited, retryVars, stepVars, waitVars,
                   clicks>>

\* focus_window, input_prompt: input_text pastes the prompt, then send_message
\* calls safe_click(send_button)
InputPrompt ==
    /\ pc = "input_prompt"
    /\ visited' = Visit("input_prompt")
    /\ \E f \in FocusResults : EnvStep(~f, TRUE, FocusEffects, FALSE)
    /\ FocusTrack(TRUE, TRUE, FALSE)
    /\ prompts' = prompts + 1
    /\ IF Has("ui_elements.send_button")
          THEN /\ RetryCall("safe_click", 3, 1)
               /\ stepStatus' = [stepStatus EXCEPT !["input_prompt"] = "running"]
               /\ pc' = "send_click"
               /\ UNCHANGED result
          ELSE /\ Caught("input_prompt")
               /\ UNCHANGED retryVars
    /\ UNCHANGED <<inputVars, locVars, keyVars, ctor, ocRetry, ocHotkeys, attached,
                   sendHotkeys, sendOut, sendRet, accepts, waitVars, clicks>>

\* send_message: the fallback hotkey is issued when safe_click did not click
SendFallback_Mut(clicked) == TRUE

SendFallback(clicked) == ~clicked

\* what send_message returns: True after the click, True after the fallback
SendReturn_Mut(clicked) == clicked

SendReturn(clicked) == TRUE

\* send_message after safe_click: return True, or the hotkey and return True
SendMessage ==
    /\ pc = "send_click"
    /\ rPc = "done"
    /\ RetryReset
    /\ IF rRet = "raised"
          THEN /\ Caught("input_prompt")
               /\ UNCHANGED <<sendHotkeys, sendOut, sendRet, envVars, focusVars>>
          ELSE /\ sendOut' = rRet
               /\ sendRet' = IF SendReturn(rRet = "true") THEN "true" ELSE "false"
               /\ sendHotkeys' = IF SendFallback(rRet = "true") THEN sendHotkeys + 1
                                 ELSE sendHotkeys
               /\ EnvStep(FALSE, SendFallback(rRet = "true"), {}, TRUE)
               /\ FocusTrack(FALSE, SendFallback(rRet = "true"), TRUE)
               /\ stepStatus' = [stepStatus EXCEPT !["input_prompt"] = "ok"]
               /\ pc' = "wait_execution"
               /\ UNCHANGED result
    /\ UNCHANGED <<inputVars, locVars, keyVars, ctor, visited, ocRetry, ocHotkeys, attached,
                   prompts, accepts, waitVars, clicks>>

\* wait_execution: timeout = timeout or config['wait_timeouts']['execution'],
\* the configured value being any of 0..MaxTimeout
WaitCall ==
    /\ pc = "wait_execution"
    /\ visited' = Visit("wait_execution")
    /\ waitCalls' = waitCalls + 1
    /\ elapsed' = 0
    /\ IF Has("wait_timeouts.execution")
          THEN /\ \E t \in 0..MaxTimeout : timeout' = t
               /\ stepStatus' = [stepStatus EXCEPT !["wait_execution"] = "running"]
               /\ pc' = "wait_loop"
               /\ UNCHANGED <<result, waitOut>>
          ELSE /\ waitOut' = "keyerror"
               /\ Caught("wait_execution")
               /\ UNCHANGED timeout
    /\ UNCHANGED <<inputVars, locVars, keyVars, ctor, envVars, focusVars, retryVars, stepVars,
                   waitAllVisible, polls, visiblePolls, finalPoll, clicks>>

\* while time.time() - start < timeout
WaitLoopCond(e, t) == e < t

\* what ends wait_execution when the loop condition fails
WaitExhausted_Mut == "return False"

WaitExhausted == "raise TimeoutError"

\* what execute_workflow does with wait_execution's return value: nothing, it
\* goes on to accept_changes
AfterWait_Mut(ret) == IF ret = "true" THEN "done" ELSE "accept_changes"

AfterWait(ret) == "accept_changes"

\* the loop test of wait_execution, and the evaluation of
\* self.config['ui_elements']['generating'] inside the try
WaitLoop ==
    /\ pc = "wait_loop"
    /\ IF WaitLoopCond(elapsed, timeout)
          THEN IF Has("ui_elements.generating")
               THEN /\ RetryCall("check_element_exist", 3, 2)
                    /\ pc' = "wait_check"
                    /\ UNCHANGED <<result, stepStatus, waitOut, waitAllVisible>>
               ELSE /\ waitOut' = "false"
                    /\ waitAllVisible' = FALSE
                    /\ stepStatus' = [stepStatus EXCEPT !["wait_execution"] = "fail"]
                    /\ pc' = AfterWait("false")
                    /\ UNCHANGED <<result, retryVars>>
          ELSE IF WaitExhausted = "raise TimeoutError"
               THEN /\ waitOut' = "timeout"
                    /\ Caught("wait_execution")
                    /\ UNCHANGED <<retryVars, waitAllVisible>>
               ELSE /\ waitOut' = "timeout"
                    /\ stepStatus' = [stepStatus EXCEPT !["wait_execution"] = "fail"]
                    /\ pc' = AfterWait("false")
                    /\ UNCHANGED <<result, retryVars, waitAllVisible>>
    /\ UNCHANGED <<inputVars, locVars, keyVars, ctor, visited, envVars, focusVars, stepVars,
                   waitCalls, timeout, elapsed, polls, visiblePolls, finalPoll, clicks>>

\* the seconds one poll takes: the sleeps of check_element_exist, and
\* time.sleep(5) when it returned True
PollCost_Mut(found, slept) == slept + (IF found THEN PollSleep + 2 ELSE 0)

PollCost(found, slept) == slept + (IF found THEN PollSleep ELSE 0)

\* check_element_exist returned: sleep and poll again, or return True
WaitPolled ==
    /\ pc = "wait_check"
    /\ rPc = "done"
    /\ RetryReset
    /\ polls' = polls + 1
    /\ elapsed' = elapsed + PollCost(rRet = "true", rSlept)
    /\ waitAllVisible' = (waitAllVisible /\ rHist = <<"found">>)
    /\ visiblePolls' = IF rHist = <<"found">> THEN visiblePolls + 1 ELSE visiblePolls
    /\ IF rRet = "true"
          THEN /\ pc' = "wait_loop"
               /\ UNCHANGED <<ctor, visited, result, stepStatus, waitOut, finalPoll>>
          ELSE IF rRet = "false"
               THEN /\ waitOut' = "true"
                    /\ finalPoll' = rHist
                    /\ stepStatus' = [stepStatus EXCEPT !["wait_execution"] = "ok"]
                    /\ pc' = AfterWait("true")
                    /\ UNCHANGED <<ctor, visited, result>>
               ELSE /\ waitOut' = "false"
                    /\ stepStatus' = [stepStatus EXCEPT !["wait_execution"] = "fail"]
                    /\ pc' = AfterWait("false")
                    /\ UNCHANGED <<ctor, visited, result, finalPoll>>
    /\ UNCHANGED <<inputVars, locVars, keyVars, envVars, focusVars, stepVars, waitCalls,
                   timeout, clicks>>

\* return self.accept_changes(): the hotkey, a sleep, return True
AcceptChanges ==
    /\ pc = "accept_changes"
    /\ visited' = Visit("accept_changes")
    /\ accepts' = accepts + 1
    /\ EnvStep(FALSE, TRUE, {}, TRUE)
    /\ FocusTrack(FALSE, TRUE, TRUE)
    /\ stepStatus' = [stepStatus EXCEPT !["accept_changes"] = "ok"]
    /\ result' = "true"
    /\ pc' = "done"
    /\ UNCHANGED <<inputVars, locVars, keyVars, ctor, retryVars, ocRetry, ocHotkeys, attached,
                   prompts, sendHotkeys, sendOut, sendRet, waitVars, clicks>>

----------------------------------------------------------------------------
\* wait_execution called on its own on a constructed automator whose
\* config['wait_timeouts']['execution'] is any of 1..MaxWait.

InitWait ==
    /\ platform = "Windows"
    /\ cfg = CONFIG
    /\ task = "task"
    /\ files = <<>>
    /\ pc = "wait_harness"
    /\ ctor = "ok"
    /\ Fresh
    /\ LocIdle
    /\ hotkeys = ConfigHotkeys

\* automator.wait_execution()
CallWait ==
    /\ pc = "wait_harness"
    /\ waitCalls' = waitCalls + 1
    /\ elapsed' = 0
    /\ \E t \in 1..MaxWait : timeout' = t
    /\ stepStatus' = [stepStatus EXCEPT !["wait_execution"] = "running"]
    /\ pc' = "wait_loop"
    /\ UNCHANGED <<inputVars, locVars, keyVars, ctor, visited, result, envVars, focusVars,
                   retryVars, stepVars, waitOut, waitAllVisible, polls, visiblePolls,
                   finalPoll, clicks>>

NextWait == CallWait \/ WaitLoop \/ CheckAttempt \/ RetryExhausted \/ WaitPolled

SpecWait == InitWait /\ [][NextWait]_vars

----------------------------------------------------------------------------
\* open_composer and new_session called on their own on a constructed automator
\* whose two hotkeys are any key lists of at most MaxKeys keys.

HotkeyNames == {"open_composer", "new_session"}

KeyLists == UNION {[1..n -> {ctrl_key, "i"}] : n \in 0..MaxKeys}

InitHotkey ==
    /\ platform \in Platforms
    /\ cfg = CONFIG
    /\ task = "task"
    /\ files = <<>>
    /\ pc = "open_composer"
    /\ ctor = "ok"
    /\ Fresh
    /\ LocIdle
    /\ hotkeys \in [HotkeyNames -> KeyLists]

NextHotkey ==
    \/ OpenComposerBody
    \/ OpenComposerLoop
    \/ CheckAttempt
    \/ RetryExhausted
    \/ OpenComposerVerified
    \/ NewSession

SpecHotkey == InitHotkey /\ [][NextHotkey]_vars

----------------------------------------------------------------------------
\* execute_workflow's inputs.

FileNames == {"a.py", "b.py"}

FileLists == UNION {[1..n -> FileNames] : n \in 0..MaxFiles}

Init ==
    /\ platform \in Platforms
    /\ cfg \in Configs
    /\ task \in {"", "task"}
    /\ files \in FileLists
    /\ pc = "init"
    /\ ctor = "none"
    /\ Fresh
    /\ LocIdle
    /\ hotkeys = ConfigHotkeys

Next ==
    \/ Construct
    \/ OpenProject
    \/ Focus
    \/ OpenComposerBody
    \/ OpenComposerLoop
    \/ CheckAttempt
    \/ RetryExhausted
    \/ OpenComposerVerified
    \/ NewSession
    \/ LinkFilesFocus
    \/ LinkFile
    \/ LinkFilesReturn
    \/ InputPrompt
    \/ SafeClickAttempt
    \/ SendMessage
    \/ WaitCall
    \/ WaitLoop
    \/ WaitPolled
    \/ AcceptChanges

Spec == Init /\ [][Next]_vars

----------------------------------------------------------------------------
\* Claims about the bounded-count retries, checked under SpecRetry.

\* the attempts of the current call that failed
FailedAttempts == {i \in 1..Len(rHist) : rHist[i] # "found"}

\* the attempts of the current call whose locate found the element
LocatedAttempts == {i \in 1..Len(rHist) : rHist[i] \in {"found", "click_exc"}}

\* C3 as stated: for every N >= 0 a bounded-count retry invokes locate at most N
\* times (one locate per attempt), returns success at the first attempt whose
\* locate finds the element, making no further attempt, and returns failure only
\* after exactly N failed attempts.
C3_StopsAtFirstLocated ==
    /\ Len(rHist) <= rN
    /\ \A i \in LocatedAttempts : i = Len(rHist) /\ rRet = "true"
    /\ rRet = "true" => Len(rHist) \in LocatedAttempts
    /\ rRet = "false" => Len(rHist) = rN /\ FailedAttempts = 1..rN

\* C3 amended: for every N >= 0 a bounded-count retry invokes locate at most N
\* times, returns success at the first attempt that finds the element and (in
\* safe_click) clicks it without the click raising, making no further attempt,
\* and returns failure only after exactly N failed attempts; an attempt of
\* safe_click that finds the element and whose click raises is a failed attempt
\* and the next attempt is made.
C3_BoundedRetry ==
    /\ Len(rHist) <= rN
    /\ \A i \in 1..Len(rHist) : rHist[i] = "found" => (i = Len(rHist) /\ rRet = "true")
    /\ rRet = "true" => (Len(rHist) >= 1 /\ rHist[Len(rHist)] = "found")
    /\ rRet = "false" => Len(rHist) = rN /\ FailedAttempts = 1..rN
    /\ rPc = "done" => rRet \in {"true", "false"}

\* safe_click succeeded at its second attempt, after a first attempt that found
\* the element and whose click raised
C3_Witness ==
    /\ rFn = "safe_click"
    /\ rRet = "true"
    /\ rHist = <<"click_exc", "found">>

\* C4: an exception raised by the locate or by the click of an attempt is one
\* failed attempt: it never leaves the call, it is followed by the attempt's
\* sleep and by the remaining attempts, and the call ends by returning True or
\* False (False only after all N attempts).
C4_ExceptionIsOneFailedAttempt ==
    /\ rRet # "raised"
    /\ rPc = "done" => rRet \in {"true", "false"}
    /\ rSlept = rInterval * Cardinality(FailedAttempts)
    /\ \A i \in 1..Len(rHist) :
        rHist[i] \in Exceptions =>
            \/ i < Len(rHist)
            \/ rPc = "loop"
            \/ rRet = "false" /\ Len(rHist) = rN

\* a call in which two attempts raised and the third succeeded
C4_Witness ==
    /\ rPc = "done"
    /\ rRet = "true"
    /\ rHist = <<"locate_exc", "click_exc", "found">>

----------------------------------------------------------------------------
\* Claims about the workflow, checked under Spec.

\* the steps C1 names, in the order execute_workflow runs them
ClaimedSteps == SubSeq(Steps, 2, Len(Steps))

\* C1: a step begins only if every earlier step reported success; if a step
\* fails (returns a failure value or raises) no later step executes and
\* execute_workflow returns failure; in particular accept_changes is never
\* issued after wait_execution reported failure.
C1_HaltsAtFirstFailure ==
    /\ \A i, j \in 1..Len(ClaimedSteps) :
        (i < j /\ stepStatus[ClaimedSteps[j]] # "notrun")
            => stepStatus[ClaimedSteps[i]] = "ok"
    /\ (\E i \in 1..Len(ClaimedSteps) : stepStatus[ClaimedSteps[i]] = "fail")
            => result \in {"none", "false"}
    /\ waitOut \in {"false", "timeout", "keyerror"} => accepts = 0

\* C2: for every configuration that lacks a key the workflow reads, the
\* construction fails with a configuration error before any step executes: no
\* process launch, window action, input injection or screen capture happens.
C2_ConstructionRejectsIncompleteConfig ==
    (cfg # CONFIG /\ pc # "init") => (ctor = "ValueError" /\ effects = {})

\* C5: in wait_execution an exception raised while the generating predicate is
\* evaluated is one failed attempt: polling continues until the predicate flips
\* (an evaluation that does not find the indicator) or the deadline elapses, and
\* only the TimeoutError ends the poll with a failure.
C5_PollSurvivesExceptions ==
    /\ waitOut # "false"
    /\ waitOut = "true" => \E i \in 1..Len(finalPoll) : finalPoll[i] = "absent"

\* C6: when every evaluation of the generating predicate finds the indicator,
\* wait_execution ends only by raising TimeoutError, and the time elapsed since
\* it started (its sleeps) is then at least timeout and at most
\* timeout + poll_interval, the poll interval being 5 seconds.
C6_TimeoutWithinOnePollInterval ==
    (waitAllVisible /\ waitOut \notin {"none", "keyerror"}) =>
        /\ waitOut = "timeout"
        /\ elapsed >= timeout
        /\ elapsed <= timeout + 5

\* the poll timed out after two polls that both found the indicator
C6_Witness ==
    /\ waitOut = "timeout"
    /\ waitAllVisible
    /\ polls = 2
    /\ elapsed > timeout

\* C7: when wait_execution exceeds its timeout, execute_workflow returns
\* failure, the wait is not retried, and accept_changes is never issued.
C7_TimeoutIsFatal ==
    waitOut = "timeout" =>
        /\ pc = "done"
        /\ result = "false"
        /\ waitCalls = 1
        /\ accepts = 0
        /\ stepStatus["accept_changes"] = "notrun"

\* the workflow ended by the timeout of a wait that polled at least once
C7_Witness ==
    /\ waitOut = "timeout"
    /\ polls >= 1
    /\ result = "false"

\* C8: in every step that ensures window focus, if focus_window returns false
\* the workflow goes directly to failure: none of the step's inputs are injected
\* afterwards and execute_workflow returns failure.
C8_FocusFailureAbortsStep ==
    focusLost => (pc = "done" /\ result = "false" /\ ~injectedAfterFocusFail)

\* C9: send_message first attempts the click on the send button and issues the
\* submit hotkey if and only if the button was not located and clicked; when it
\* returns exactly one submit gesture was issued, and at no time both.
C9_TwoTierSubmit ==
    /\ clicks + sendHotkeys <= 1
    /\ sendHotkeys = 1 <=> sendOut = "false"
    /\ sendOut = "true" => clicks = 1
    /\ sendOut = "false" => clicks = 0
    /\ sendOut = "none" => (pc = "send_click" \/ stepStatus["input_prompt"] # "ok")
    /\ stepStatus["input_prompt"] = "ok" => clicks + sendHotkeys = 1

\* send_message returned after the fallback: no click, one hotkey
C9_Witness ==
    /\ stepStatus["input_prompt"] = "ok"
    /\ sendOut = "false"
    /\ sendHotkeys = 1
    /\ clicks = 0

\* the paths of the attach gestures performed so far
AttachedPaths == [i \in 1..Len(attached) |-> attached[i].path]

C13_AcceptOnce ==
    /\ accepts <= 1
    /\ (stepStatus["input_prompt"] = "ok" /\ waitOut = "true") =>
        /\ pc \in {"accept_changes", "done"}
        /\ pc = "accept_changes" => accepts = 0
        /\ pc = "done" => (accepts = 1 /\ result = "true")

\* a run ended after a wait of two polls that succeeded and one accept gesture
C13_Witness ==
    /\ pc = "done"
    /\ waitOut = "true"
    /\ polls = 2
    /\ accepts = 1
    /\ result = "true"

\* the verifications of open_composer that did not find the agent_mode element
OcFailedVerifications == 3 - ocRetry

\* the verifications open_composer has completed
OcVerifications ==
    OcFailedVerifications + (IF stepStatus["open_composer"] = "ok" THEN 1 ELSE 0)

\* open_composer returned False (its loop ran out; an exception leaves it with
\* retries remaining)
OcReturnedFalse == stepStatus["open_composer"] = "fail" /\ ocRetry = 0

\* C14: open_composer retries its whole body up to 3 times: it issues its
\* hotkey at most 3 times, when it returns every issue of the hotkey has been
\* followed by a verification, it returns False only after 3 failed
\* verifications, and it returns True exactly when a verification found the
\* element.
C14_RetriesWholeBody ==
    /\ ocHotkeys <= 3
    /\ OcReturnedFalse => (OcFailedVerifications = 3 /\ OcVerifications = ocHotkeys)
    /\ stepStatus["open_composer"] = "ok" => OcVerifications = ocHotkeys

\* C15: every injection of keyboard or mouse input (the open-composer hotkey,
\* the new-session hotkey and clearing keys, the attach gestures, the prompt
\* paste, the send click or hotkey, the accept-changes hotkey) happens in a
\* step that called focus_window first, after the previous step finished and
\* with no wait_execution in between.
C15_FocusBeforeEveryInput == unfocusedInputs = {}

\* the workflow state each step of execute_workflow belongs to
StateOf ==
    [s \in StepNames |->
        CASE s = "open_project" -> "OpeningApp"
          [] s = "focus" -> "Focusing"
          [] s = "open_composer" -> "OpeningPanel"
          [] s = "new_session" -> "StartingSession"
          [] s = "link_files" -> "AttachingInputs"
          [] s = "input_prompt" -> "SubmittingTask"
          [] s = "wait_execution" -> "AwaitingCompletion"
          [] s = "accept_changes" -> "Finalizing"]

\* the workflow states the run has visited, in order, up to its last step
StatesVisited == <<"Idle">> \o [i \in 1..Len(visited) |-> StateOf[visited[i]]]

\* the run has reached Done: execute_workflow returned True
RunDone == pc = "done" /\ result = "true"

IsPrefix(s, t) == Len(s) <= Len(t) /\ \A i \in 1..Len(s) : s[i] = t[i]

NoRepeat(s) == \A i, j \in 1..Len(s) : s[i] = s[j] => i = j

\* the order of the states as the claim gives it
ClaimedOrder ==
    <<"Idle", "Focusing", "OpeningApp", "OpeningPanel", "StartingSession",
      "AttachingInputs", "SubmittingTask", "AwaitingCompletion", "Finalizing">>

\* the order in which execute_workflow runs their steps
RunOrder ==
    <<"Idle", "OpeningApp", "Focusing", "OpeningPanel", "StartingSession",
      "AttachingInputs", "SubmittingTask", "AwaitingCompletion", "Finalizing">>

\* C16 as stated: the states a run visits are a prefix of Idle, Focusing,
\* OpeningApp, OpeningPanel, StartingSession, AttachingInputs, SubmittingTask,
\* AwaitingCompletion, Finalizing, followed by Done or Failed: none is visited
\* twice, none is skipped on the way to Done, and focus is established before
\* the application is opened.
C16_ClaimedStateOrder ==
    /\ IsPrefix(StatesVisited, ClaimedOrder)
    /\ NoRepeat(StatesVisited)
    /\ RunDone => StatesVisited = ClaimedOrder

\* C16 amended: the states a run visits are a prefix of Idle, OpeningApp,
\* Focusing, OpeningPanel, StartingSession, AttachingInputs, SubmittingTask,
\* AwaitingCompletion, Finalizing, followed by Done or Failed: the application
\* is opened before focus is established, none is visited twice, and none is
\* skipped on the way to Done, except that with an empty task Done follows
\* AttachingInputs.
C16_StateOrder ==
    /\ IsPrefix(StatesVisited, RunOrder)
    /\ NoRepeat(StatesVisited)
    /\ RunDone => StatesVisited = (IF task = "" THEN SubSeq(RunOrder, 1, 6) ELSE RunOrder)
    /\ (pc = "done" /\ result = "false") => visited # <<>>

\* a run reached Done through every state, after open_composer repeated its
\* body twice
C16_Witness ==
    /\ RunDone
    /\ ocHotkeys = 3
    /\ StatesVisited = RunOrder

\* what is left of the bounded-count retry that is running: two for every
\* attempt it may still make, and its return
RetryRank ==
    IF rPc = "loop" THEN 2 * (rN - Len(rHist)) + 2 ELSE IF rPc = "done" THEN 1 ELSE 0

\* the seconds wait_execution's loop may still run
WaitLeft == IF elapsed < timeout THEN timeout - elapsed ELSE 0

\* more than the rank of any position inside wait_execution
WaitTop == 12 + 10 * MaxTimeout

\* more than the rank of any position from link_files on
LinkTop == WaitTop + 13 + Len(files)

\* a variant of execute_workflow: a natural number that every step of the
\* run makes smaller (the positions in program order; inside a loop, what the
\* loop has left: retries, attempts, files, seconds)
Rank ==
    CASE pc = "init" -> LinkTop + 51
      [] pc = "idle" -> LinkTop + 50
      [] pc = "focus" -> LinkTop + 49
      [] pc = "open_composer" -> LinkTop + 1 + 12 * ocRetry + 11
      [] pc = "oc_loop" -> LinkTop + 1 + 12 * ocRetry + 10
      [] pc = "oc_verify" -> LinkTop + 1 + 12 * ocRetry + RetryRank
      [] pc = "new_session" -> LinkTop
      [] pc = "link_files" -> WaitTop + 12 + Len(files)
      [] pc = "link_loop" -> WaitTop + 11 + (Len(files) - Len(attached))
      [] pc = "input_prompt" -> WaitTop + 10
      [] pc = "send_click" -> WaitTop + RetryRank
      [] pc = "wait_execution" -> WaitTop
      [] pc = "wait_loop" -> 2 + 10 * WaitLeft + 9
      [] pc = "wait_check" -> 2 + 10 * WaitLeft + RetryRank
      [] pc = "accept_changes" -> 1
      [] OTHER -> 0

\* execute_workflow has returned, or was never called because the
\* construction raised
Returned == pc \in {"done", "ctor_failed"}

\* C18: every run of execute_workflow terminates with exactly one boolean
\* result: every step makes the variant Rank smaller and Rank never falls below
\* zero (every loop is bounded by its retry count, its files or the timeout);
\* a run that has not returned can take a step; a run that has returned has
\* the result True or False, exceptions (the wait's TimeoutError included)
\* having been turned into False; and no result exists before the return.
C18_TerminatesWithOneResult ==
    /\ [][Rank' < Rank]_vars
    /\ [](Rank >= 0)
    /\ [](~Returned => ENABLED Next)
    /\ [](pc = "done" <=> result \in {"true", "false"})
    /\ [](result \in {"none", "true", "false"})

\* a run that repeated open_composer's body, attached two files and polled
\* returned False when the wait raised TimeoutError
C18_Witness ==
    /\ pc = "done"
    /\ result = "false"
    /\ waitOut = "timeout"
    /\ ocHotkeys = 3
    /\ Len(attached) = 2
    /\ polls = 1

\* C19: with an empty task execute_workflow enters no prompt, issues no submit
\* gesture, does not wait and does not accept, and once the files are attached
\* it has returned True.  With a non-empty task the submit, the wait and the
\* accept are attempted in that order: each is begun as soon as the one before
\* it has returned and never before, and True is returned only after all three.
C19_EmptyTaskSkipsSubmit ==
    /\ task = "" =>
        /\ prompts = 0 /\ clicks = 0 /\ sendHotkeys = 0 /\ waitCalls = 0 /\ accepts = 0
        /\ stepStatus["input_prompt"] = "notrun"
        /\ stepStatus["wait_execution"] = "notrun"
        /\ stepStatus["accept_changes"] = "notrun"
        /\ stepStatus["link_files"] = "ok" => (pc = "done" /\ result = "true")
    /\ task # "" =>
        /\ stepStatus["link_files"] = "ok" => (pc = "input_prompt" \/ prompts = 1)
        /\ prompts > 0 => stepStatus["link_files"] = "ok"
        /\ stepStatus["input_prompt"] = "ok" => (pc = "wait_execution" \/ waitCalls = 1)
        /\ waitCalls > 0 => (stepStatus["input_prompt"] = "ok" /\ clicks + sendHotkeys = 1)
        /\ waitOut \in {"true", "false"} => (pc = "accept_changes" \/ accepts = 1)
        /\ accepts > 0 => waitOut \in {"true", "false"}
        /\ result = "true" => (prompts = 1 /\ waitCalls = 1 /\ accepts = 1)

\* a run with an empty task returned True after attaching two files
C19_Witness ==
    /\ task = ""
    /\ pc = "done"
    /\ result = "true"
    /\ Len(attached) = 2
    /\ stepStatus["link_files"] = "ok"

\* C20: send_message returns True whenever it returns, also when safe_click
\* located the send button in none of its 3 attempts and only the unverified
\* fallback hotkey was sent; no failure of the submit is ever reported, and the
\* submit step fails only by an exception (the KeyError of a configuration
\* without ui_elements['send_button']).
C20_SendAlwaysReportsSuccess ==
    /\ sendRet \in {"none", "true"}
    /\ sendOut \in {"true", "false"} <=> sendRet = "true"
    /\ stepStatus["input_prompt"] = "ok" <=> sendRet = "true"
    /\ (pc = "send_click" /\ rRet = "false") => (Len(rHist) = 3 /\ FailedAttempts = 1..3)
    /\ stepStatus["input_prompt"] = "fail" =>
        /\ ~Has("ui_elements.send_button")
        /\ sendRet = "none"
        /\ result = "false"

\* the workflow returned True although the send button was never located and
\* only the fallback hotkey was sent
C20_Witness ==
    /\ sendOut = "false"
    /\ sendRet = "true"
    /\ clicks = 0
    /\ sendHotkeys = 1
    /\ pc = "done"
    /\ result = "true"

----------------------------------------------------------------------------
\* Claims about wait_execution on its own, checked under SpecWait.

\* every locate of the poll that made wait_execution return True missed the
\* indicator
IndicatorGone == \A i \in 1..Len(finalPoll) : finalPoll[i] = "absent"

\* C11: when the generating indicator is visible for the first two polls and
\* absent afterwards, and the timeout is longer than the two poll sleeps,
\* wait_execution returns True after the two 5-second poll sleeps and no
\* further waiting: 10 seconds have elapsed, not the timeout.
C11_ReturnsAfterTwoPollSleeps ==
    (waitOut = "true" /\ polls = 3 /\ visiblePolls = 2 /\ IndicatorGone) =>
        elapsed = 2 * PollSleep

----------------------------------------------------------------------------
\* Claims about the locator on its own, checked under SpecLocate.

----------------------------------------------------------------------------
\* Claims about the hotkeys, checked under SpecHotkey.

\* every chord pressed so far is the configured key list of its hotkey: the
\* first key held, the remaining keys pressed in list order
ChordsAsConfigured ==
    \A c \in chords :
        /\ hotkeys[c.name] # <<>>
        /\ c.held = Head(hotkeys[c.name])
        /\ c.pressed = Tail(hotkeys[c.name])

\* C17: no call of _hotkey changes config['hotkeys'], however often it is
\* called (open_composer's repeated calls included), and every call presses
\* the configured chord: the first key of the list held, the remaining keys
\* pressed in list order.
C17_HotkeyKeepsKeyList == [][hotkeys' = hotkeys]_vars /\ []ChordsAsConfigured

\* open_composer pressed a hotkey of three keys three times and new_session
\* pressed its hotkey after it
C17_Witness ==
    /\ ocHotkeys = 3
    /\ stepStatus["new_session"] = "ok"
    /\ Len(hotkeys["open_composer"]) = 3
    /\ hotkeys["open_composer"][2] # hotkeys["open_composer"][3]
    /\ Cardinality(chords) = 2

====
